---------------------------- MODULE Spec2Model ----------------------------
(***************************************************************************)
(* Model of vite-plugin-dnn-ascx (src/unnamed/part_000).                   *)
(*                                                                         *)
(* Strings (file texts, paths, URLs) are sequences of atoms.  An atom is a *)
(* TLA+ string that stands for one character class member or one lexical   *)
(* token of the source text: "<!--", "-->", "@vite:entry", " " (the only   *)
(* whitespace atom), "/", ".", "-", "_", "\\" and runs of word characters  *)
(* such as "src" or "Home".  Paths follow node's posix `path` module.      *)
(***************************************************************************)
EXTENDS Integers, Sequences, FiniteSets, TLC

VARIABLES
    phase,        \* position in the plugin lifecycle
    opts,         \* DnnAscxPluginOptions given to dnnAscx()
    command,      \* env.command / config.command
    disk,         \* the file system: path -> text of every existing file
    allAscxFiles, \* let allAscxFiles: string[]
    discovered,   \* the paths the last discovery returned, before .map(norm)
    inputs,       \* the Rollup input map returned by config()
    refs,         \* const refs: EntryRef[]
    lastIndex,    \* marker.lastIndex of the shared RegExp object
    io,           \* file-system calls and reload signals of the last hook/handler
    calls,        \* Render Contexts passed to render() by the last hook/handler
    queue,        \* watcher events not yet delivered
    edits,        \* number of file-system changes made by the environment
    probe         \* last call of a function exercised on its own

vars == <<phase, opts, command, disk, allAscxFiles, discovered, inputs, refs, lastIndex,
          io, calls, queue, edits, probe>>

-----------------------------------------------------------------------------
(* Bounds *)

\* chunks concatenated into a text exercised by the rewrite functions
MaxChunks == 2
\* atoms of a public base / artifact name exercised by toPublicUrl
MaxUrlLen == 3
\* directory depth of a source path exercised by writeMirrored
MaxDepth == 3
\* file-system changes made by the environment while the dev server runs
MaxEdits == 2

-----------------------------------------------------------------------------
(* Generic string helpers *)

Max(S) == CHOOSE x \in S : \A y \in S : y <= x
Min(S) == CHOOSE x \in S : \A y \in S : x <= y

RECURSIVE Flatten(_)
Flatten(ss) == IF ss = <<>> THEN <<>> ELSE Head(ss) \o Flatten(Tail(ss))

\* all sequences over S of length 0..n
SeqsUpTo(S, n) == UNION { [1..k -> S] : k \in 0..n }

StartsWith(s, pre) ==
    Len(s) >= Len(pre) /\ SubSeq(s, 1, Len(pre)) = pre

EndsWith(s, suf) ==
    Len(s) >= Len(suf) /\ SubSeq(s, Len(s) - Len(suf) + 1, Len(s)) = suf

Count(s, a) == Cardinality({ i \in 1..Len(s) : s[i] = a })

\* String.prototype.replace(pattern: string, "") : first occurrence only
ReplaceFirst(s, pat) ==
    LET CutAt(hits) ==
            IF pat = <<>> \/ hits = {} THEN s
            ELSE SubSeq(s, 1, Min(hits) - 1) \o SubSeq(s, Min(hits) + Len(pat), Len(s))
    IN CutAt({ i \in 1..(Len(s) - Len(pat) + 1) : SubSeq(s, i, i + Len(pat) - 1) = pat })

-----------------------------------------------------------------------------
(* The marker: /<!--\s*@vite:entry\s+([^\s]+)\s*-->/g  (line 265) *)

LT == "<!--"
GT == "-->"
KW == "@vite:entry"
WS == " "

NoMatch == [ok |-> FALSE, start |-> 0, end |-> 0, cap |-> <<>>]

\* \s* : first position at or after i that holds no whitespace
SkipWs(t, i) == Min({ j \in i..(Len(t) + 1) : j = Len(t) + 1 \/ t[j] # WS })

\* [^\s]+ taken greedily from j : last position of the whitespace-free run
RunEnd(t, j) == Min({ k \in j..(Len(t) + 1) : k = Len(t) + 1 \/ t[k] = WS }) - 1

\* One attempt of the pattern at position s (1-based), with the backtracking
\* of the greedy capture group: the longest capture that "\s*-->" can follow.
MatchAt(t, s) ==
    LET \* K: the capture ends that "\s*-->" can follow; the longest one wins
        Close(b, e, g, K) ==
            IF K = {} THEN NoMatch
            ELSE [ok |-> TRUE, start |-> s,
                  end |-> IF Max(K) = e THEN g ELSE Max(K) + 1,
                  cap |-> SubSeq(t, b, Max(K))]
        \* b..e: the whitespace-free run, g: the first position after "\s*"
        Capture(b, e, g) ==
            Close(b, e, g, { k \in b..e : IF k = e THEN g <= Len(t) /\ t[g] = GT
                                                   ELSE t[k + 1] = GT })
        Run(b, e) == Capture(b, e, SkipWs(t, e + 1))
        \* "\s+" between the keyword at a and the capture at b
        Spaces(a, b) ==
            IF b = a + 1 \/ b > Len(t) THEN NoMatch ELSE Run(b, RunEnd(t, b))
        Keyword(a) ==
            IF a > Len(t) \/ t[a] # KW THEN NoMatch ELSE Spaces(a, SkipWs(t, a + 1))
    IN IF s > Len(t) \/ t[s] # LT THEN NoMatch ELSE Keyword(SkipWs(t, s + 1))

\* leftmost match starting at position p or later
FindFrom(t, p) ==
    LET Leftmost(S) == IF S = {} THEN NoMatch ELSE MatchAt(t, Min(S))
    IN Leftmost({ s \in p..Len(t) : MatchAt(t, s).ok })

\* RegExp.prototype.exec / test of a global pattern: the search starts at
\* lastIndex (0-based) and leaves lastIndex after the match, or 0 on failure.
RegExpExec(t, li) ==
    LET Result(m) == [m |-> m, lastIndex |-> IF m.ok THEN m.end ELSE 0]
    IN Result(FindFrom(t, li + 1))

\* while ((m = marker.exec(content))) { ... }  (lines 444-454): the matches
\* visited by the loop, which ends when exec returns null.
RECURSIVE ExecLoop(_, _)
ExecLoop(t, li) ==
    LET Visit(r) == IF ~r.m.ok THEN <<>> ELSE <<r.m>> \o ExecLoop(t, r.lastIndex)
    IN Visit(RegExpExec(t, li))

-----------------------------------------------------------------------------
(* node:path (posix) *)

Cwd == <<"/", "proj">>

Dot == <<".">>
DotDot == <<".", ".">>

IsAbsolute(p) == p # <<>> /\ p[1] = "/"

\* the non-empty segments between "/" atoms
RECURSIVE Split(_)
Split(p) ==
    IF p = <<>> THEN <<>>
    ELSE LET Segment(seg, rest) == IF seg = <<>> THEN rest ELSE <<seg>> \o rest
             CutAt(cut) ==
                 Segment(SubSeq(p, 1, cut - 1), Split(SubSeq(p, cut + 1, Len(p))))
         IN CutAt(Min({ j \in 1..(Len(p) + 1) : j = Len(p) + 1 \/ p[j] = "/" }))

\* resolution of "." and ".." segments
RECURSIVE NormAcc(_, _, _)
NormAcc(segs, acc, absolute) ==
    IF segs = <<>> THEN acc
    ELSE LET s == Head(segs) IN
         IF s = Dot THEN NormAcc(Tail(segs), acc, absolute)
         ELSE IF s = DotDot THEN
              IF acc # <<>> /\ acc[Len(acc)] # DotDot
              THEN NormAcc(Tail(segs), SubSeq(acc, 1, Len(acc) - 1), absolute)
              ELSE IF absolute THEN NormAcc(Tail(segs), acc, absolute)
              ELSE NormAcc(Tail(segs), Append(acc, DotDot), absolute)
         ELSE NormAcc(Tail(segs), Append(acc, s), absolute)

Abs(segs) ==
    IF segs = <<>> THEN <<"/">>
    ELSE Flatten([i \in 1..Len(segs) |-> <<"/">> \o segs[i]])

Rel(segs) ==
    IF segs = <<>> THEN <<>>
    ELSE segs[1] \o Flatten([i \in 1..(Len(segs) - 1) |-> <<"/">> \o segs[i + 1]])

PathResolve(p) ==
    Abs(NormAcc(IF IsAbsolute(p) THEN Split(p) ELSE Split(Cwd) \o Split(p), <<>>, TRUE))

PathRelative(from, to) ==
    LET \* c: the number of leading segments f and t share
        Climb(f, t, c) ==
            Rel([i \in 1..(Len(f) - c) |-> DotDot] \o SubSeq(t, c + 1, Len(t)))
        Common(f, t) ==
            Climb(f, t, Max({ n \in 0..Min({Len(f), Len(t)}) :
                                SubSeq(f, 1, n) = SubSeq(t, 1, n) }))
    IN Common(Split(PathResolve(from)), Split(PathResolve(to)))

PathBasename(p) ==
    LET Last(s) == IF s = <<>> THEN <<>> ELSE s[Len(s)]
    IN Last(Split(p))

PathJoin(a, b) ==
    LET Normalized(joined, n) ==
            IF IsAbsolute(joined) THEN Abs(n) ELSE IF n = <<>> THEN Dot ELSE Rel(n)
        Normalize(joined) ==
            Normalized(joined, NormAcc(Split(joined), <<>>, IsAbsolute(joined)))
    IN Normalize(IF a = <<>> THEN b ELSE IF b = <<>> THEN a ELSE a \o <<"/">> \o b)

-----------------------------------------------------------------------------
(* norm / absPath  (lines 272-278) *)

\* String.prototype.toLowerCase on one atom
LowerAtom(a) ==
    CASE a = "Home"  -> "home"
      [] a = "Skins" -> "skins"
      [] a = "Proj"  -> "proj"
      [] OTHER       -> a

ToLowerCase(s) == [i \in 1..Len(s) |-> LowerAtom(s[i])]

\* .replace(/\\/g, "/")
UnifySeparators(s) == [i \in 1..Len(s) |-> IF s[i] = "\\" THEN "/" ELSE s[i]]

\* .replace(/\/+$/, "")
RECURSIVE StripTrailingSlashes(_)
StripTrailingSlashes(s) ==
    IF s # <<>> /\ s[Len(s)] = "/" THEN StripTrailingSlashes(SubSeq(s, 1, Len(s) - 1))
    ELSE s

norm(p) == ToLowerCase(StripTrailingSlashes(UnifySeparators(p)))

absPath(p) == norm(IF IsAbsolute(p) THEN p ELSE PathResolve(p))

-----------------------------------------------------------------------------
(* Optional values: undefined is {}, a present value v is {v} *)

None == {}
Some(v) == {v}
IsSome(o) == o # {}
Get(o) == CHOOSE v \in o : TRUE
\* a ?? b
Coalesce(o, d) == IF IsSome(o) THEN Get(o) ELSE d

-----------------------------------------------------------------------------
(* toPublicUrl  (lines 309-312) *)

\* base.replace(/\/?$/, "/") : the leftmost match of /\/?$/ is the final "/"
\* when the string ends with one, else the empty match at the end.
EnsureTrailingSlash(s) ==
    LET hits == { i \in 1..(Len(s) + 1) : i = Len(s) + 1 \/ (i = Len(s) /\ s[i] = "/") }
    IN SubSeq(s, 1, Min(hits) - 1) \o <<"/">>

\* faulty variant: the artifact name is appended as it is
KeepLeadingSlash(s) == s

\* p.replace(/^\//, "")
StripLeadingSlash(s) == IF s # <<>> /\ s[1] = "/" THEN Tail(s) ELSE s

\* s.replace(/\/$/, "")
StripTrailingSlash(s) ==
    IF s # <<>> /\ s[Len(s)] = "/" THEN SubSeq(s, 1, Len(s) - 1) ELSE s

toPublicUrl(publicBase, configBase, p) ==
    LET base == EnsureTrailingSlash(Coalesce(publicBase, Coalesce(configBase, <<"/">>)))
    IN base \o StripLeadingSlash(p)

-----------------------------------------------------------------------------
(* computeDevOrigin  (lines 314-320) *)

DefaultPort == <<"5173">>

computeDevOrigin(optDevOrigin, serverOrigin, serverPort) ==
    IF IsSome(optDevOrigin) /\ Get(optDevOrigin) # <<>>
    THEN StripTrailingSlash(Get(optDevOrigin))
    ELSE IF IsSome(serverOrigin) /\ Get(serverOrigin) # <<>>
    THEN StripTrailingSlash(Get(serverOrigin))
    ELSE <<"http://localhost:">> \o Coalesce(serverPort, DefaultPort)

-----------------------------------------------------------------------------
(* writeMirrored  (lines 322-332) *)

\* const ascxRootDir = path.resolve(opts.ascxRootDir ?? process.cwd())  (line 270)
ascxRootDirOf(optRoot) == PathResolve(Coalesce(optRoot, Cwd))

\* rel.startsWith("..") ? path.basename(absFilePath) : rel
SafeRel(rel, absFilePath) ==
    IF StartsWith(rel, <<".", ".">>) THEN PathBasename(absFilePath) ELSE rel

\* the path writeFileSync is called with
MirrorPath(ascxRootDir, outDir, absFilePath) ==
    PathJoin(outDir, SafeRel(PathRelative(ascxRootDir, absFilePath), absFilePath))

-----------------------------------------------------------------------------
(* defaultRender  (lines 334-345) *)

ScriptOpen == "<script type=\"module\" src=\""
ScriptClose == "\"></script>"
LinkOpen == "<link rel=\"stylesheet\" href=\""
LinkClose == "\">"
NewLine == "\n"

ScriptTag(url) == <<ScriptOpen>> \o url \o <<ScriptClose>>
LinkTag(url) == <<LinkOpen>> \o url \o <<LinkClose>>

\* tags.join("\n")
JoinLines(tags) ==
    IF tags = <<>> THEN <<>>
    ELSE tags[1] \o Flatten([i \in 1..(Len(tags) - 1) |-> <<NewLine>> \o tags[i + 1]])

defaultRender(ctx) ==
    JoinLines(
        (IF ctx.mode = "dev" /\ IsSome(ctx.devClientUrl) /\ Get(ctx.devClientUrl) # <<>>
         THEN <<ScriptTag(Get(ctx.devClientUrl))>> ELSE <<>>)
        \o [i \in 1..Len(ctx.cssUrls) |-> LinkTag(ctx.cssUrls[i])]
        \o <<ScriptTag(ctx.jsUrl)>>)

render(ctx) == defaultRender(ctx)

-----------------------------------------------------------------------------
(* rewriteAscxForDev  (lines 347-377) *)

ViteClient == "@vite/client"

\* faulty variant: the client URL is handed to every occurrence
DevClientUrlAlways(injectedClient, devClientUrl) == Some(devClientUrl)

\* devClientUrl: injectedClient ? undefined : devClientUrl   (line 371)
DevClientUrlFor(injectedClient, devClientUrl) ==
    IF injectedClient THEN None ELSE Some(devClientUrl)

DevContext(m, ascxAbs, devOrigin, injectedClient) ==
    [mode |-> "dev",
     ascxPath |-> ascxAbs,
     entryFromMarker |-> m.cap,
     entryAbs |-> PathResolve(m.cap),
     jsUrl |-> devOrigin \o <<"/">> \o StripLeadingSlash(m.cap),
     cssUrls |-> <<>>,
     devClientUrl |-> DevClientUrlFor(injectedClient, devOrigin \o <<"/", ViteClient>>),
     chunk |-> None]

\* faulty variant: a marker without the g flag, replace() stops after the first match
DevReplaceFirstOnly(t, p, injectedClient, ascxAbs, devOrigin) ==
    LET Replaced(m, ctx) ==
            [out |-> SubSeq(t, p, m.start - 1) \o render(ctx) \o SubSeq(t, m.end + 1, Len(t)),
             calls |-> <<ctx>>]
        Callback(m) ==
            IF ~m.ok THEN [out |-> SubSeq(t, p, Len(t)), calls |-> <<>>]
            ELSE Replaced(m, DevContext(m, ascxAbs, devOrigin, injectedClient))
    IN Callback(FindFrom(t, p))

\* original.replace(marker, callback) from position p on; injectedClient is
\* the closure variable the callback sets after its first call.
RECURSIVE DevReplaceFrom(_, _, _, _, _)
DevReplaceFrom(t, p, injectedClient, ascxAbs, devOrigin) ==
    LET Replaced(m, ctx, rest) ==
            [out |-> SubSeq(t, p, m.start - 1) \o render(ctx) \o rest.out,
             calls |-> <<ctx>> \o rest.calls]
        Callback(m) ==
            IF ~m.ok THEN [out |-> SubSeq(t, p, Len(t)), calls |-> <<>>]
            ELSE Replaced(m, DevContext(m, ascxAbs, devOrigin, injectedClient),
                          DevReplaceFrom(t, m.end + 1, TRUE, ascxAbs, devOrigin))
    IN Callback(FindFrom(t, p))

\* marker.lastIndex is reset on entry (line 352); the result carries its
\* value on exit
rewriteAscxForDev(original, ascxAbs, devOrigin) ==
    LET Replace(r) == [out |-> r.out, calls |-> r.calls, lastIndex |-> 0]
        Tested(test) ==
            IF ~test.m.ok
            THEN [out |-> original, calls |-> <<>>, lastIndex |-> test.lastIndex]
            ELSE Replace(DevReplaceFrom(original, 1, FALSE, ascxAbs, devOrigin))
    IN Tested(RegExpExec(original, 0))

-----------------------------------------------------------------------------
(* getChunkBySourceEntry and the build replacement  (lines 292-307, 536-577) *)

\* a bundle is the sequence Object.values(bundle)
getChunkBySourceEntry(bundle, entryAbs) ==
    LET First(hits) == IF hits = {} THEN None ELSE Some(bundle[Min(hits)])
    IN First({ i \in 1..Len(bundle) :
                 /\ bundle[i].type = "chunk"
                 /\ bundle[i].isEntry
                 /\ IsSome(bundle[i].facadeModuleId)
                 /\ PathResolve(Get(bundle[i].facadeModuleId)) = entryAbs })

MissingOpen == "<!-- vite:missing-entry "
MissingClose == " -->"

MissingEntry(entryFromMarker) == <<MissingOpen>> \o entryFromMarker \o <<MissingClose>>

BuildContext(m, fAbs, chunk, publicBase, configBase) ==
    [mode |-> "build",
     ascxPath |-> fAbs,
     entryFromMarker |-> m.cap,
     entryAbs |-> PathResolve(m.cap),
     jsUrl |-> toPublicUrl(publicBase, configBase, chunk.fileName),
     cssUrls |-> [i \in 1..Len(chunk.importedCss) |->
                    toPublicUrl(publicBase, configBase, chunk.importedCss[i])],
     devClientUrl |-> None,
     chunk |-> Some(chunk)]

\* faulty variant: an occurrence without a chunk is dropped from the output
DropMarker(m) == <<>>

\* if (!chunk) return `<!-- vite:missing-entry ${entryFromMarker} -->`  (line 553)
OnMissingChunk(m) == MissingEntry(m.cap)

RECURSIVE BuildReplaceFrom(_, _, _, _, _, _)
BuildReplaceFrom(t, p, bundle, fAbs, publicBase, configBase) ==
    LET Replaced(m, chunk, ctx, rest) ==
            [out |-> SubSeq(t, p, m.start - 1)
                     \o (IF IsSome(chunk) THEN render(ctx) ELSE OnMissingChunk(m))
                     \o rest.out,
             calls |-> (IF IsSome(chunk) THEN <<ctx>> ELSE <<>>) \o rest.calls]
        Resolved(m, chunk) ==
            Replaced(m, chunk, BuildContext(m, fAbs, Get(chunk), publicBase, configBase),
                     BuildReplaceFrom(t, m.end + 1, bundle, fAbs, publicBase, configBase))
        Callback(m) ==
            IF ~m.ok THEN [out |-> SubSeq(t, p, Len(t)), calls |-> <<>>]
            ELSE Resolved(m, getChunkBySourceEntry(bundle, PathResolve(m.cap)))
    IN Callback(FindFrom(t, p))

\* the body of the generateBundle loop for one file text (lines 539-574)
rewriteAscxForBuild(original, fAbs, bundle, publicBase, configBase) ==
    LET Replace(r) == [out |-> r.out, calls |-> r.calls, lastIndex |-> 0]
    IN IF ~RegExpExec(original, 0).m.ok
       THEN [out |-> original, calls |-> <<>>, lastIndex |-> 0]
       ELSE Replace(BuildReplaceFrom(original, 1, bundle, fAbs, publicBase, configBase))

-----------------------------------------------------------------------------
(* Inputs *)

MarkA == <<LT, WS, KW, WS, "src", "/", "a", ".", "js", WS, GT>>
MarkB == <<LT, KW, WS, "/", "src", "/", "b", ".", "js", GT>>
Plain == <<"<div>">>
Broken == <<LT, WS, KW, WS, GT>>
Stray == <<WS, GT>>

Chunks == {MarkA, MarkB, Plain, Broken, Stray}

\* texts built from at most MaxChunks chunks
Texts == { Flatten(cs) : cs \in SeqsUpTo(Chunks, MaxChunks) }

SrcA == <<"/", "proj", "/", "src", "/", "a", ".", "js">>
SrcB == <<"/", "src", "/", "b", ".", "js">>

EntryChunk(module, fileName, css) ==
    [type |-> "chunk", isEntry |-> TRUE, facadeModuleId |-> Some(module),
     fileName |-> fileName, importedCss |-> css]

ChunkA == EntryChunk(SrcA, <<"assets", "/", "a", ".", "abc123", ".", "js">>,
                     << <<"assets", "/", "a", ".", "abc123", ".", "css">> >>)
ChunkB == EntryChunk(SrcB, <<"assets", "/", "b", ".", "def456", ".", "js">>, <<>>)
SharedChunk ==
    [type |-> "chunk", isEntry |-> FALSE, facadeModuleId |-> None,
     fileName |-> <<"assets", "/", "shared", ".", "js">>, importedCss |-> <<>>]

Bundles == { <<SharedChunk>>, <<SharedChunk, ChunkA>>, <<ChunkB>>, <<ChunkA, ChunkB>> }

HomeAscx == <<"/", "proj", "/", "skins", "/", "home", ".", "ascx">>
DevOrigins == { <<"http://localhost:5173">>, <<"https://dev.example">> }

-----------------------------------------------------------------------------
(* The file system and discovery *)

DotAscx == <<".", "ascx">>

BuildOutDir == <<"dist">>
DevOutDir == <<".", "dnn">>
PublicDir == <<"/", "proj", "/", "public">>

\* dirToIgnore  (lines 280-284), as the set of ignored directories;
\* the patterns d and d/** exclude d and everything below it
dirToIgnore(dir) == IF IsSome(dir) /\ Get(dir) # <<>> THEN {norm(Get(dir))} ELSE {}

\* ignore = uniq([...])  (lines 401-414)
IgnoreDirs ==
    dirToIgnore(Some(BuildOutDir)) \cup dirToIgnore(Some(DevOutDir)) \cup dirToIgnore(None)
    \cup {<<"node_modules">>, <<".", "git">>}

Ignored(p) ==
    \E d \in IgnoreDirs : StartsWith(PathRelative(Cwd, p), d \o <<"/">>)

InDotDir(p) ==
    LET Hidden(segs) == \E i \in 1..Len(segs) : segs[i][1] = "."
    IN Hidden(Split(PathRelative(Cwd, p)))

HomeUpperAscx == <<"/", "proj", "/", "skins", "/", "Home", ".", "ascx">>
OtherHomeAscx == <<"/", "proj", "/", "other", "/", "home", ".", "ascx">>
LogoPng == <<"/", "proj", "/", "public", "/", "logo", ".", "png">>
SampleAscx == <<"/", "proj", "/", "docs", "/", "sample", ".", "ascx">>

\* the order in which discovery lists the files it finds
DiscoveryOrder == <<HomeAscx, OtherHomeAscx, HomeUpperAscx>>

\* opts.ascxGlobs = ["skins/**/*.ascx", "other/**/*.ascx"]
GlobRoots == { <<"skins", "/">>, <<"other", "/">> }

\* fg(opts.ascxGlobs, { absolute: true, ignore, dot })
\* (lines 417-424 with dot, lines 511-513 and 521-523 without)
Glob(d, dot) ==
    LET hit(p) == /\ p \in DOMAIN d
                  /\ EndsWith(p, DotAscx)
                  /\ \E g \in GlobRoots : StartsWith(PathRelative(Cwd, p), g)
                  /\ ~Ignored(p)
                  /\ dot \/ ~InDotDir(p)
    IN SelectSeq(DiscoveryOrder, hit)

MapNorm(files) == [i \in 1..Len(files) |-> norm(files[i])]

Reload == [op |-> "reload", path |-> <<>>, orig |-> <<>>, text |-> <<>>]

\* Execution state of one hook or handler: the disk, the calls made so far,
\* and the error thrown ("none" while it is running normally).
Start(d, li) == [disk |-> d, io |-> <<>>, calls |-> <<>>, lastIndex |-> li, error |-> "none"]

\* reload()  (line 476)
SendReload(st) ==
    IF st.error # "none" THEN st ELSE [st EXCEPT !.io = Append(@, Reload)]

\* fs.readFileSync(path, "utf8"); orig is the path discovery or the watcher
\* reported for the file
ReadFile(st, path, orig) ==
    IF st.error # "none" THEN st
    ELSE IF path \in DOMAIN st.disk
    THEN [st EXCEPT !.io = Append(@, [op |-> "read", path |-> path, orig |-> orig,
                                      text |-> st.disk[path]])]
    ELSE [st EXCEPT !.io = Append(@, [op |-> "read", path |-> path, orig |-> orig,
                                      text |-> <<>>]),
                    !.error = "ENOENT"]

\* writeMirrored(outDir, absFilePath, contents)  (lines 322-332); orig is the
\* path the same call yields from the case-preserving arguments
writeMirrored(st, root, outDir, absFilePath, contents, orig) ==
    LET WriteFile(outPath) ==
            [st EXCEPT !.disk = (outPath :> contents) @@ @,
                       !.io = Append(@, [op |-> "write", path |-> outPath, orig |-> orig,
                                         text |-> contents])]
    IN IF st.error # "none" THEN st
       ELSE WriteFile(MirrorPath(root, outDir, absFilePath))

-----------------------------------------------------------------------------
(* writeAllDevAscx  (lines 379-390) *)

\* one iteration of the loop, also the template branch of onChange
DevRewriteFile(st, root, devOutAbs, ascxAbs, orig, devOrigin) ==
    LET Mirror(rd, r) ==
            writeMirrored([rd EXCEPT !.calls = @ \o r.calls, !.lastIndex = r.lastIndex],
                          root, devOutAbs, ascxAbs, r.out,
                          MirrorPath(root, PathResolve(DevOutDir), orig))
        Rewrite(rd) ==
            IF rd.error # "none" THEN rd
            ELSE Mirror(rd, rewriteAscxForDev(st.disk[ascxAbs], ascxAbs, devOrigin))
    IN Rewrite(ReadFile(st, ascxAbs, orig))

RECURSIVE DevLoop(_, _, _, _, _, _)
DevLoop(st, root, files, origs, devOrigin, i) ==
    IF i > Len(files) \/ st.error # "none" THEN st
    ELSE DevLoop(DevRewriteFile(st, root, PathResolve(DevOutDir), files[i], origs[i], devOrigin),
                 root, files, origs, devOrigin, i + 1)

writeAllDevAscx(st, root, files, origs, devOrigin) ==
    DevLoop(st, root, files, origs, devOrigin, 1)

-----------------------------------------------------------------------------
(* config  (lines 396-469) *)

\* .replace(/[^\w]/g, "_") on one atom
KeyAtoms(a) ==
    CASE a \in {"/", ".", "-", "\\", " "} -> <<"_">>
      [] a = LT -> <<"_", "_", "_", "_">>
      [] a = GT -> <<"_", "_", "_">>
      [] a = KW -> <<"_", "vite", "_", "entry">>
      [] OTHER -> <<a>>

\* path.relative(process.cwd(), entryAbs).replace(/[^\w]/g, "_")  (lines 449-451)
InputKey(entryAbs) ==
    LET Key(rel) == Flatten([i \in 1..Len(rel) |-> KeyAtoms(rel[i])])
    IN Key(PathRelative(Cwd, entryAbs))

\* the while loop over one file's markers (lines 444-454)
RECURSIVE RegisterMatches(_, _, _, _)
RegisterMatches(acc, fAbs, ms, i) ==
    LET Register(entryAbs) ==
            RegisterMatches([inputs |-> (InputKey(entryAbs) :> entryAbs) @@ acc.inputs,
                             refs |-> Append(acc.refs,
                                             [ascxPath |-> fAbs, entryAbs |-> entryAbs])],
                            fAbs, ms, i + 1)
    IN IF i > Len(ms) THEN acc ELSE Register(PathResolve(ms[i].cap))

\* the for loop over allAscxFiles (lines 442-455)
RECURSIVE ScanLoop(_, _, _, _, _)
ScanLoop(st, acc, files, origs, i) ==
    LET Scan(rd) ==
            IF rd.error # "none" THEN [st |-> rd, acc |-> acc]
            ELSE ScanLoop(rd, RegisterMatches(acc, files[i], ExecLoop(st.disk[files[i]], 0), 1),
                          files, origs, i + 1)
    IN IF i > Len(files) THEN [st |-> st, acc |-> acc]
       ELSE Scan(ReadFile(st, files[i], origs[i]))

\* faulty variant: the flag is never looked at
ThrowsNever(cmd, require, ins) == FALSE

\* if (opts.requireAtLeastOneEntry && Object.keys(inputs).length === 0) throw  (line 457)
ThrowsNoEntries(cmd, require, ins) == cmd = "build" /\ require /\ DOMAIN ins = {}

Config(cmd) ==
    /\ \E files \in {Glob(disk, TRUE)} :
       \E scan \in {IF cmd = "build"
                    THEN ScanLoop(Start(disk, lastIndex), [inputs |-> <<>>, refs |-> <<>>],
                                  MapNorm(files), files, 1)
                    ELSE [st |-> Start(disk, lastIndex),
                          acc |-> [inputs |-> inputs, refs |-> refs]]} :
       \E error \in {IF scan.st.error # "none" THEN scan.st.error
                     ELSE IF ThrowsNoEntries(cmd, opts.requireAtLeastOneEntry, scan.acc.inputs)
                     THEN "NoEntries" ELSE "none"} :
          /\ discovered' = files
          /\ allAscxFiles' = MapNorm(files)
          /\ command' = cmd
          /\ inputs' = scan.acc.inputs
          /\ refs' = scan.acc.refs
          /\ io' = scan.st.io
          /\ calls' = <<>>
          /\ lastIndex' = 0
          /\ probe' = [fn |-> "config", error |-> error, bundle |-> <<>>]
          /\ phase' = IF error = "none" THEN "configured" ELSE "failed"
    /\ UNCHANGED <<opts, disk, queue, edits>>

\* vite dev: config(_, { command: "serve" })
ConfigServe ==
    /\ phase = "created"
    /\ Config("serve")

\* vite build: config(_, { command: "build" })
ConfigBuild ==
    /\ phase = "created"
    /\ Config("build")

\* configResolved  (lines 471-473)
ConfigResolved ==
    /\ phase = "configured"
    /\ phase' = "resolved"
    /\ probe' = [fn |-> "configResolved", error |-> "none", bundle |-> <<>>]
    /\ io' = <<>>
    /\ calls' = <<>>
    /\ UNCHANGED <<opts, command, disk, allAscxFiles, discovered, inputs, refs, lastIndex,
                   queue, edits>>

-----------------------------------------------------------------------------
(* configureServer and the watcher handlers  (lines 475-528) *)

ServerDevOrigin == computeDevOrigin(opts.devOrigin, None, None)
Root == ascxRootDirOf(opts.ascxRootDir)

Finish(fn, result, okPhase) ==
    \E st \in {result} :
       /\ disk' = st.disk
       /\ io' = st.io
       /\ calls' = st.calls
       /\ lastIndex' = st.lastIndex
       /\ probe' = [fn |-> fn, error |-> st.error, bundle |-> <<>>]
       /\ phase' = IF st.error = "none" THEN okPhase ELSE "failed"

ConfigureServer ==
    /\ phase = "resolved"
    /\ command = "serve"
    /\ Finish("configureServer",
              writeAllDevAscx(Start(disk, lastIndex), Root, allAscxFiles, discovered,
                              ServerDevOrigin),
              "serving")
    /\ UNCHANGED <<opts, command, allAscxFiles, discovered, inputs, refs, queue, edits>>

\* the public-directory branch of onChange (lines 489-493)
CopyPublicFile(st, root, file, abs, absPublicDir) ==
    LET Copy(rd) ==
            IF rd.error # "none" THEN rd
            ELSE writeMirrored(rd, root, absPath(DevOutDir),
                               absPath(ReplaceFirst(abs, absPublicDir)), st.disk[abs],
                               MirrorPath(root, PathResolve(DevOutDir),
                                          PathResolve(ReplaceFirst(file, PublicDir \o <<"/">>))))
    IN Copy(ReadFile(st, abs, file))

\* faulty variant: the reload signal is sent before the file is mirrored
onChangeReloadFirst(st, root, files, file, devOrigin) ==
    LET Handle(abs, absPublicDir) ==
            IF StartsWith(abs, absPublicDir)
            THEN CopyPublicFile(SendReload(st), root, file, abs, absPublicDir)
            ELSE IF EndsWith(abs, DotAscx)
            THEN IF \A i \in 1..Len(files) : files[i] # abs THEN st
                 ELSE DevRewriteFile(SendReload(st), root, absPath(DevOutDir), abs, file,
                                     devOrigin)
            ELSE st
    IN Handle(absPath(ToLowerCase(file)), absPath(ToLowerCase(PublicDir)) \o <<"/">>)

\* const onChange = (file) => { ... }  (lines 485-505)
onChange(st, root, files, file, devOrigin) ==
    LET Handle(abs, absPublicDir) ==
            IF StartsWith(abs, absPublicDir)
            THEN SendReload(CopyPublicFile(st, root, file, abs, absPublicDir))
            ELSE IF EndsWith(abs, DotAscx)
            THEN IF \A i \in 1..Len(files) : files[i] # abs THEN st
                 ELSE SendReload(DevRewriteFile(st, root, absPath(DevOutDir), abs, file,
                                                devOrigin))
            ELSE st
    IN Handle(absPath(ToLowerCase(file)), absPath(ToLowerCase(PublicDir)) \o <<"/">>)

HandleChange ==
    /\ phase = "serving"
    /\ queue # <<>>
    /\ Head(queue).kind = "change"
    /\ Finish("change",
              onChange(Start(disk, lastIndex), Root, allAscxFiles, Head(queue).file,
                       ServerDevOrigin),
              "serving")
    /\ queue' = Tail(queue)
    /\ UNCHANGED <<opts, command, allAscxFiles, discovered, inputs, refs, edits>>

\* the body shared by the add and unlink handlers (lines 509-527),
\* run on the file list the fresh discovery returned
onMembership(st, root, found, file, devOrigin) ==
    IF EndsWith(ToLowerCase(file), DotAscx)
    THEN SendReload(writeAllDevAscx(st, root, MapNorm(found), found, devOrigin))
    ELSE st

HandleMembership(kind) ==
    /\ queue # <<>>
    /\ Head(queue).kind = kind
    /\ \E file \in {Head(queue).file}, found \in {Glob(disk, FALSE)} :
          /\ Finish(kind, onMembership(Start(disk, lastIndex), Root, found, file,
                                       ServerDevOrigin),
                    "serving")
          /\ IF EndsWith(ToLowerCase(file), DotAscx)
             THEN discovered' = found /\ allAscxFiles' = MapNorm(found)
             ELSE UNCHANGED <<discovered, allAscxFiles>>
    /\ queue' = Tail(queue)
    /\ UNCHANGED <<opts, command, inputs, refs, edits>>

\* server.watcher.on("add", ...)  (lines 509-517)
HandleAdd ==
    /\ phase = "serving"
    /\ HandleMembership("add")

\* server.watcher.on("unlink", ...)  (lines 519-527)
HandleUnlink ==
    /\ phase = "serving"
    /\ HandleMembership("unlink")

-----------------------------------------------------------------------------
(* generateBundle  (lines 530-578) *)

ConfigBase == Some(<<"/", "skin", "/">>)

BuildRewriteFile(st, root, outDir, fAbs, orig, bundle, publicBase) ==
    LET Mirror(rd, r) ==
            writeMirrored([rd EXCEPT !.calls = @ \o r.calls, !.lastIndex = r.lastIndex],
                          root, outDir, fAbs, r.out, MirrorPath(root, outDir, orig))
        Rewrite(rd) ==
            IF rd.error # "none" THEN rd
            ELSE Mirror(rd, rewriteAscxForBuild(st.disk[fAbs], fAbs, bundle, publicBase,
                                                ConfigBase))
    IN Rewrite(ReadFile(st, fAbs, orig))

RECURSIVE BuildLoop(_, _, _, _, _, _, _)
BuildLoop(st, root, files, origs, bundle, publicBase, i) ==
    IF i > Len(files) \/ st.error # "none" THEN st
    ELSE BuildLoop(BuildRewriteFile(st, root, PathResolve(BuildOutDir), files[i], origs[i],
                                    bundle, publicBase),
                   root, files, origs, bundle, publicBase, i + 1)

\* the entry chunk Rollup emits for an input module
ChunkOf(module) ==
    IF module = SrcA THEN ChunkA
    ELSE EntryChunk(module, <<"assets", "/">> \o PathBasename(module), <<>>)

Range(f) == { f[k] : k \in DOMAIN f }

\* Object.values(bundle): a shared chunk and the entry chunks of some inputs
BundleOf(modules) ==
    LET in(m) == m \in modules
        Chunked(ms) == <<SharedChunk>> \o [i \in 1..Len(ms) |-> ChunkOf(ms[i])]
    IN Chunked(SelectSeq(<<SrcA, SrcB, PathResolve(<<"src", "/", "a", "-", "b", ".", "js">>),
                           PathResolve(<<"src", "/", "a", "_", "b", ".", "js">>)>>, in))

GenerateBundle ==
    /\ phase = "resolved"
    /\ command = "build"
    /\ \E built \in SUBSET Range(inputs) :
       \E bundle \in {BundleOf(built)} :
       \E st \in {BuildLoop(Start(disk, lastIndex), Root, allAscxFiles, discovered,
                            bundle, opts.publicBase, 1)} :
          /\ disk' = st.disk
          /\ io' = st.io
          /\ calls' = st.calls
          /\ lastIndex' = st.lastIndex
          /\ probe' = [fn |-> "generateBundle", error |-> st.error, bundle |-> bundle]
          /\ phase' = IF st.error = "none" THEN "built" ELSE "failed"
    /\ UNCHANGED <<opts, command, allAscxFiles, discovered, inputs, refs, queue, edits>>

-----------------------------------------------------------------------------
(* The environment: files change while the dev server runs, and the        *)
(* watcher queues one event per change                                     *)

MarkDash == <<LT, WS, KW, WS, "src", "/", "a", "-", "b", ".", "js", WS, GT>>
MarkUnderscore == <<LT, WS, KW, WS, "src", "/", "a", "_", "b", ".", "js", WS, GT>>

TextPlain == Plain
TextOne == Plain \o MarkA
TextTwo == MarkDash \o Plain \o MarkUnderscore
FileTexts == {TextPlain, TextOne, TextTwo}

\* the texts a file may hold
TextsOf(p) ==
    CASE p = HomeAscx -> FileTexts
      [] p = OtherHomeAscx -> {TextOne}
      [] p = HomeUpperAscx -> {TextPlain, TextOne}
      [] p = LogoPng -> {<<"png1">>, <<"png2">>}
      [] OTHER -> {TextOne}

Templates == {HomeAscx, OtherHomeAscx, HomeUpperAscx}

Event(kind, file) == [kind |-> kind, file |-> file]

EnvChange ==
    /\ phase = "serving"
    /\ edits < MaxEdits
    /\ \E p \in DOMAIN disk, text \in FileTexts \cup {<<"png1">>, <<"png2">>} :
          /\ p \in Templates \cup {LogoPng, SampleAscx}
          /\ text \in TextsOf(p)
          /\ p = SampleAscx \/ text # disk[p]
          /\ disk' = [disk EXCEPT ![p] = text]
          /\ queue' = Append(queue, Event("change", p))
    /\ edits' = edits + 1
    /\ UNCHANGED <<phase, opts, command, allAscxFiles, discovered, inputs, refs, lastIndex,
                   io, calls, probe>>

EnvAdd ==
    /\ phase = "serving"
    /\ edits < MaxEdits
    /\ \E p \in Templates \ DOMAIN disk, text \in FileTexts :
          /\ text \in TextsOf(p)
          /\ disk' = (p :> text) @@ disk
          /\ queue' = Append(queue, Event("add", p))
    /\ edits' = edits + 1
    /\ UNCHANGED <<phase, opts, command, allAscxFiles, discovered, inputs, refs, lastIndex,
                   io, calls, probe>>

EnvUnlink ==
    /\ phase = "serving"
    /\ edits < MaxEdits
    /\ \E p \in Templates \cap DOMAIN disk :
          /\ disk' = [q \in DOMAIN disk \ {p} |-> disk[q]]
          /\ queue' = Append(queue, Event("unlink", p))
    /\ edits' = edits + 1
    /\ UNCHANGED <<phase, opts, command, allAscxFiles, discovered, inputs, refs, lastIndex,
                   io, calls, probe>>

-----------------------------------------------------------------------------
(* Spec: the plugin from construction to the dev server or the build *)

FixedFiles == (LogoPng :> <<"png1">>) @@ (SampleAscx :> TextOne)

InitialDisks ==
    { d @@ FixedFiles : d \in UNION { [S -> FileTexts] : S \in SUBSET Templates } }

Init ==
    /\ phase = "created"
    /\ \E require \in BOOLEAN, root \in {None, Some(<<"skins">>)} :
          opts = [ascxRootDir |-> root, publicBase |-> None, devOrigin |-> None,
                  requireAtLeastOneEntry |-> require]
    /\ command = "none"
    /\ disk \in { d \in InitialDisks : \A p \in DOMAIN d : d[p] \in TextsOf(p) }
    /\ allAscxFiles = <<>>
    /\ discovered = <<>>
    /\ inputs = <<>>
    /\ refs = <<>>
    /\ lastIndex = 0
    /\ io = <<>>
    /\ calls = <<>>
    /\ queue = <<>>
    /\ edits = 0
    /\ probe = [fn |-> "none", error |-> "none", bundle |-> <<>>]

Next ==
    \/ ConfigServe
    \/ ConfigBuild
    \/ ConfigResolved
    \/ ConfigureServer
    \/ HandleChange
    \/ HandleAdd
    \/ HandleUnlink
    \/ GenerateBundle
    \/ EnvChange
    \/ EnvAdd
    \/ EnvUnlink

Spec == Init /\ [][Next]_vars

-----------------------------------------------------------------------------
(* State outside the lifecycle: nothing has been constructed or run *)

DefaultOpts ==
    [ascxRootDir |-> None, publicBase |-> None, devOrigin |-> None,
     requireAtLeastOneEntry |-> FALSE]

Idle ==
    /\ phase = "idle"
    /\ opts = DefaultOpts
    /\ command = "none"
    /\ disk = <<>>
    /\ allAscxFiles = <<>>
    /\ discovered = <<>>
    /\ inputs = <<>>
    /\ refs = <<>>
    /\ lastIndex = 0
    /\ io = <<>>
    /\ calls = <<>>
    /\ queue = <<>>
    /\ edits = 0

lifecycleVars == <<phase, opts, command, disk, allAscxFiles, discovered, inputs, refs, io, queue, edits>>

-----------------------------------------------------------------------------
(* SpecRewrite: the two rewrite functions applied, any number of times and   *)
(* sharing the marker's lastIndex, to a text drawn at the start and to the   *)
(* text of another file                                                      *)

OtherAscx == <<"/", "proj", "/", "skins", "/", "sub", "/", "menu", ".", "ascx">>
OtherText == MarkB \o Plain \o MarkA

InitRewrite ==
    /\ Idle
    /\ \E text \in Texts : probe = [fn |-> "none", earlier |-> FALSE, text |-> text]

RewriteInputs == { <<HomeAscx, probe.text>>, <<OtherAscx, OtherText>> }

RewriteDev ==
    \E file \in RewriteInputs, devOrigin \in DevOrigins :
    \E r \in {rewriteAscxForDev(file[2], file[1], devOrigin)} :
        /\ probe' = [fn |-> "rewriteAscxForDev", earlier |-> probe.fn # "none",
                     text |-> probe.text, ascxPath |-> file[1],
                     original |-> file[2], devOrigin |-> devOrigin,
                     bundle |-> <<>>, out |-> r.out]
        /\ calls' = r.calls
        /\ lastIndex' = r.lastIndex
        /\ UNCHANGED lifecycleVars

RewriteBuild ==
    \E file \in RewriteInputs, bundle \in Bundles :
    \E r \in {rewriteAscxForBuild(file[2], file[1], bundle, None, Some(<<"/", "skin", "/">>))} :
        /\ probe' = [fn |-> "generateBundle", earlier |-> probe.fn # "none",
                     text |-> probe.text, ascxPath |-> file[1],
                     original |-> file[2], devOrigin |-> <<>>,
                     bundle |-> bundle, out |-> r.out]
        /\ calls' = r.calls
        /\ lastIndex' = r.lastIndex
        /\ UNCHANGED lifecycleVars

NextRewrite == RewriteDev \/ RewriteBuild

SpecRewrite == InitRewrite /\ [][NextRewrite]_vars

-----------------------------------------------------------------------------
(* SpecUrl: toPublicUrl applied to arbitrary bases and artifact names *)

UrlBases == SeqsUpTo({"/", "skin"}, MaxUrlLen)
UrlNames == SeqsUpTo({"/", "a.js"}, MaxUrlLen) \ {<<>>}

InitUrl ==
    /\ Idle
    /\ \E publicBase \in {None} \cup { Some(b) : b \in UrlBases },
          configBase \in {None, Some(<<"/">>), Some(<<"/", "base">>)},
          p \in UrlNames :
           probe = [fn |-> "none", publicBase |-> publicBase,
                    configBase |-> configBase, p |-> p, result |-> <<>>]

CallToPublicUrl ==
    /\ probe.fn = "none"
    /\ probe' = [probe EXCEPT !.fn = "toPublicUrl",
                              !.result = toPublicUrl(probe.publicBase, probe.configBase, probe.p)]
    /\ UNCHANGED <<lifecycleVars, lastIndex, calls>>

SpecUrl == InitUrl /\ [][CallToPublicUrl]_vars

-----------------------------------------------------------------------------
(* SpecMirror: the output path of writeMirrored for arbitrary source paths *)

DotDotName == <<".", ".", "tmp">>
SegmentNames == { <<"proj">>, <<"skins">>, <<"other">>, DotDotName, <<"home", ".", "ascx">> }
SourcePaths == { Abs(segs) : segs \in SeqsUpTo(SegmentNames, MaxDepth) \ {<<>>} }
RootOptions == { None, Some(<<"skins">>), Some(<<"/", "proj", "/", "skins">>), Some(<<"/">>) }
OutDirs == { <<"/", "proj", "/", ".dnn">>, <<"/", "out">> }

InitMirror ==
    /\ Idle
    /\ \E optRoot \in RootOptions, outDir \in OutDirs, absFilePath \in SourcePaths :
           \* a file is neither the root directory nor one of its ancestors
           /\ ~StartsWith(Split(ascxRootDirOf(optRoot)), Split(absFilePath))
           /\ probe = [fn |-> "none", ascxRootDir |-> ascxRootDirOf(optRoot),
                    outDir |-> outDir, absFilePath |-> absFilePath, outPath |-> <<>>]

CallWriteMirrored ==
    /\ probe.fn = "none"
    /\ probe' = [probe EXCEPT !.fn = "writeMirrored",
                              !.outPath = MirrorPath(probe.ascxRootDir, probe.outDir,
                                                     probe.absFilePath)]
    /\ UNCHANGED <<lifecycleVars, lastIndex, calls>>

SpecMirror == InitMirror /\ [][CallWriteMirrored]_vars

-----------------------------------------------------------------------------
(* Claims about the rewrite functions (SpecRewrite) *)

\* the marker occurrences of a text, as the scanner's exec loop visits them
Occurrences(t) == ExecLoop(t, 0)

\* the characters of t outside every occurrence
OutsideMarkers(t) ==
    LET occ == Occurrences(t)
        keep == { i \in 1..Len(t) : \A k \in 1..Len(occ) : i < occ[k].start \/ i > occ[k].end }
    IN [n \in 1..Cardinality(keep) |->
          t[CHOOSE i \in keep : Cardinality({ j \in keep : j < i }) = n - 1]]

OpenAtoms == {ScriptOpen, LinkOpen, MissingOpen}
CloseAtoms == {ScriptClose, LinkClose, MissingClose}

\* a rewritten text without the markup the replacement callback produced:
\* every span from an opening atom to the next closing atom, and the
\* newlines that join the tags of one replacement
RECURSIVE StripRendered(_)
StripRendered(s) ==
    IF s = <<>> THEN <<>>
    ELSE IF Head(s) = NewLine THEN StripRendered(Tail(s))
    ELSE IF Head(s) \in OpenAtoms
    THEN LET close == Min({ j \in 1..Len(s) : s[j] \in CloseAtoms })
         IN StripRendered(SubSeq(s, close + 1, Len(s)))
    ELSE <<Head(s)>> \o StripRendered(Tail(s))

IsRewrite == probe.fn \in {"rewriteAscxForDev", "generateBundle"}

\* C1: in every dev rewrite of a text with at least one marker occurrence,
\* also after earlier rewrite calls, the first Render Context carries
\* devClientUrl = devOrigin + "/@vite/client" and every later one carries none.
C1_ClientUrlOnlyOnFirst ==
    probe.fn = "rewriteAscxForDev" =>
        /\ Len(Occurrences(probe.original)) >= 1 => Len(calls) >= 1
        /\ Len(calls) >= 1 =>
              calls[1].devClientUrl = Some(probe.devOrigin \o <<"/", ViteClient>>)
        /\ \A i \in 2..Len(calls) : calls[i].devClientUrl = None

C1_Witness ==
    /\ probe.fn = "rewriteAscxForDev"
    /\ probe.earlier
    /\ Len(calls) >= 2
    /\ calls[2].devClientUrl = None

ExpectedRefs ==
    LET occ == Occurrences(probe.original)
        found(m) == IsSome(getChunkBySourceEntry(probe.bundle, PathResolve(m.cap)))
        hit == IF probe.fn = "rewriteAscxForDev" THEN occ ELSE SelectSeq(occ, found)
    IN [i \in 1..Len(hit) |-> hit[i].cap]

\* C2: for a text with N marker occurrences the dev and the build rewrite
\* make exactly N replacements, one per occurrence and in order, keep every
\* character outside the markers, and return the input itself when N = 0.
C2_ExactlyNReplacements ==
    IsRewrite =>
        LET n == Len(Occurrences(probe.original))
        IN /\ Len(calls) + Count(probe.out, MissingOpen) = n
           /\ [i \in 1..Len(calls) |-> calls[i].entryFromMarker] = ExpectedRefs
           /\ StripRendered(probe.out) = OutsideMarkers(probe.original)
           /\ n = 0 => probe.out = probe.original

C2_Witness ==
    /\ IsRewrite
    /\ Len(Occurrences(probe.original)) >= 2
    /\ OutsideMarkers(probe.original) # <<>>
    /\ Len(calls) >= 2

-----------------------------------------------------------------------------
(* Claims about toPublicUrl (SpecUrl) *)

RECURSIVE StripLeadingSlashes(_)
StripLeadingSlashes(s) ==
    IF s # <<>> /\ s[1] = "/" THEN StripLeadingSlashes(Tail(s)) ELSE s

UsedBase == Coalesce(probe.publicBase, Coalesce(probe.configBase, <<"/">>))

\* base, one "/", artifact path: no separator left on either side of the joint
JoinedByOneSeparator ==
    probe.result = StripTrailingSlashes(UsedBase) \o <<"/">> \o StripLeadingSlashes(probe.p)

\* C3 as stated: for every public base and every artifact name the URL joins
\* base and artifact path by exactly one "/".
C3_ExactlyOneSeparator ==
    probe.fn = "toPublicUrl" => JoinedByOneSeparator

AtMostOneTrailingSlash(s) == ~EndsWith(s, <<"/", "/">>)
AtMostOneLeadingSlash(s) == ~StartsWith(s, <<"/", "/">>)

\* C3 amended: for every public base that ends with at most one "/" and
\* every artifact name that begins with at most one "/", the URL joins base
\* and artifact path by exactly one "/".
C3_OneSeparatorForSingleSlashes ==
    (/\ probe.fn = "toPublicUrl"
     /\ AtMostOneTrailingSlash(UsedBase)
     /\ AtMostOneLeadingSlash(probe.p)) => JoinedByOneSeparator

C3_Witness ==
    /\ probe.fn = "toPublicUrl"
    /\ EndsWith(UsedBase, <<"skin", "/">>)
    /\ StartsWith(probe.p, <<"/", "a.js">>)
    /\ JoinedByOneSeparator

-----------------------------------------------------------------------------
(* Claims about writeMirrored (SpecMirror) *)

IsPrefix(a, b) == Len(a) <= Len(b) /\ SubSeq(b, 1, Len(a)) = a

\* the source lies inside the configured root directory
InsideRoot ==
    LET r == Split(probe.ascxRootDir)
        f == Split(probe.absFilePath)
    IN IsPrefix(r, f) /\ Len(f) > Len(r)

RelativeToRoot ==
    LET r == Split(probe.ascxRootDir)
        f == Split(probe.absFilePath)
    IN Rel(SubSeq(f, Len(r) + 1, Len(f)))

\* C6: writeMirrored writes inside the output root: a source inside the
\* configured root goes to its path relative to that root, a source outside
\* goes to outputRoot/<base name>.
C6_MirrorInsideOutputRoot ==
    probe.fn = "writeMirrored" =>
        /\ IsPrefix(Split(probe.outDir), Split(probe.outPath))
        /\ InsideRoot => probe.outPath = probe.outDir \o <<"/">> \o RelativeToRoot
        /\ ~InsideRoot =>
              probe.outPath = probe.outDir \o <<"/">> \o PathBasename(probe.absFilePath)

-----------------------------------------------------------------------------
(* Claims about the hooks and the watcher (Spec) *)

Writes == { k \in 1..Len(io) : io[k].op = "write" }
Reads == { k \in 1..Len(io) : io[k].op = "read" }

\* the bundle holds an entry chunk whose facadeModuleId resolves to the
\* module the occurrence m names
HasEntryChunk(m) ==
    \E i \in 1..Len(probe.bundle) :
        /\ probe.bundle[i].type = "chunk"
        /\ probe.bundle[i].isEntry
        /\ probe.bundle[i].facadeModuleId # None
        /\ \A id \in probe.bundle[i].facadeModuleId : PathResolve(id) = PathResolve(m.cap)

LacksEntryChunk(m) == ~HasEntryChunk(m)

\* the placeholder comments of a written text, in order
Placeholders(t) ==
    LET at(i) == t[i] = MissingOpen
        opens == SelectSeq([i \in 1..Len(t) |-> i], at)
        close(i) == Min({ j \in i..Len(t) : t[j] = MissingClose })
    IN [n \in 1..Len(opens) |-> SubSeq(t, opens[n], close(opens[n]))]

ExpectedPlaceholders(t) ==
    LET missing == SelectSeq(Occurrences(t), LacksEntryChunk)
    IN [n \in 1..Len(missing) |-> <<MissingOpen>> \o missing[n].cap \o <<MissingClose>>]

\* C4: in the build, an occurrence whose module has no entry chunk in the
\* bundle is replaced by the placeholder comment naming its reference and
\* raises no error; every other occurrence of the file gets its tags, the
\* text around the markers is kept, and every template is still mirrored.
C4_MissingChunkPlaceholder ==
    probe.fn = "generateBundle" =>
        /\ probe.error \in {"none", "ENOENT"}
        /\ probe.error = "ENOENT" => io[Len(io)].op = "read" /\ io[Len(io)].path \notin DOMAIN disk
        /\ probe.error = "none" => Cardinality(Writes) = Len(allAscxFiles)
        /\ \A k \in Writes :
              /\ io[k - 1].op = "read"
              /\ io[k].path = MirrorPath(Root, PathResolve(BuildOutDir), io[k - 1].path)
              /\ Placeholders(io[k].text) = ExpectedPlaceholders(io[k - 1].text)
              /\ Count(io[k].text, ScriptOpen)
                    = Len(Occurrences(io[k - 1].text)) - Len(ExpectedPlaceholders(io[k - 1].text))
              /\ StripRendered(io[k].text) = OutsideMarkers(io[k - 1].text)

C4_Witness ==
    /\ probe.fn = "generateBundle"
    /\ probe.error = "none"
    /\ \E k \in Writes : /\ Count(io[k].text, MissingOpen) = 1
                         /\ Count(io[k].text, ScriptOpen) = 1
    /\ \E k \in Writes : /\ Count(io[k].text, MissingOpen) = 0
                         /\ Count(io[k].text, ScriptOpen) = 1

\* no discovered template holds a marker occurrence
NoMarkers == \A i \in 1..Len(discovered) : Occurrences(disk[discovered[i]]) = <<>>

AllReadable == \A i \in 1..Len(allAscxFiles) : allAscxFiles[i] \in DOMAIN disk

\* C5 as stated: with requireAtLeastOneEntry and no marker in any discovered
\* template the config hook raises a fatal error; without the flag and with
\* no marker it completes without error.
C5_RequireFailsConfig ==
    (probe.fn = "config" /\ NoMarkers) =>
        IF opts.requireAtLeastOneEntry THEN phase = "failed" ELSE phase = "configured"

\* C5 amended: in a build, with the flag and no marker in any discovered
\* template the config hook fails before bundling, with the no-entries error
\* when it could read every template; without the flag it never raises that
\* error and completes exactly when it could read every template.  For the
\* dev server the hook makes no such check and completes.
C5_RequireFailsBuildConfig ==
    probe.fn = "config" =>
        /\ (command = "build" /\ opts.requireAtLeastOneEntry /\ NoMarkers) =>
              /\ phase = "failed"
              /\ probe.error = (IF AllReadable THEN "NoEntries" ELSE "ENOENT")
        /\ (command = "build" /\ ~opts.requireAtLeastOneEntry) =>
              /\ probe.error # "NoEntries"
              /\ phase = "configured" <=> AllReadable
        /\ command = "serve" => phase = "configured" /\ probe.error = "none"

C5_Witness ==
    /\ probe.fn = "config"
    /\ command = "build"
    /\ opts.requireAtLeastOneEntry
    /\ NoMarkers
    /\ discovered # <<>>
    /\ probe.error = "NoEntries"
    /\ phase = "failed"

IsWatchEvent == probe.fn \in {"change", "add", "unlink"}

\* C7: in the handling of one watch event the reload signal is the last
\* thing the handler does: every mirror write of the event is on disk before
\* it, none follows it, and a handler that wrote and did not fail sends it.
C7_WritesBeforeReload ==
    IsWatchEvent =>
        /\ \A k \in 1..Len(io) : io[k].op = "reload" => k = Len(io)
        /\ (probe.error = "none" /\ Writes # {}) => io[Len(io)].op = "reload"
        /\ \A k \in Writes :
              (\A j \in Writes : j > k => io[j].path # io[k].path) =>
                  /\ io[k].path \in DOMAIN disk
                  /\ disk[io[k].path] = io[k].text

C7_Witness ==
    /\ probe.fn = "change"
    /\ probe.error = "none"
    /\ Len(io) = 3
    /\ io[2].op = "write"
    /\ io[3].op = "reload"

\* C8: no file-system read or write is issued with a normalized path in
\* place of the original case- and separator-preserving path.
C8_NoNormalizedPathIO ==
    \A k \in Reads \cup Writes : io[k].path = io[k].orig

IsDevPass == probe.fn \in {"configureServer", "add", "unlink"} /\ phase = "serving"

\* the mirror path the dev pass uses for the i-th discovered template
DevMirrorOf(i) == MirrorPath(Root, PathResolve(DevOutDir), allAscxFiles[i])

\* C9: after the initial dev pass and after every handled add or unlink of
\* a template, distinct discovered templates have distinct mirrored paths,
\* and each mirrored file holds the dev rewrite of its template's content.
C9_OneMirrorPerTemplate ==
    IsDevPass =>
        \A i \in 1..Len(discovered) :
            /\ \A j \in 1..Len(discovered) : i # j => DevMirrorOf(i) # DevMirrorOf(j)
            /\ DevMirrorOf(i) \in DOMAIN disk
            /\ disk[DevMirrorOf(i)]
                  = rewriteAscxForDev(disk[discovered[i]], allAscxFiles[i], ServerDevOrigin).out

\* the absolute entry modules the markers of the discovered templates name
ReferencedModules ==
    UNION { { PathResolve(m.cap) : m \in Range(Occurrences(disk[discovered[i]])) } :
            i \in 1..Len(discovered) }

\* C10: the build's config hook registers every distinct referenced entry
\* module as an input: each is a value of the input map, and the map has as
\* many keys as there are distinct referenced modules.
C10_EveryEntryRegistered ==
    (probe.fn = "config" /\ command = "build" /\ phase = "configured") =>
        /\ ReferencedModules \subseteq Range(inputs)
        /\ Cardinality(DOMAIN inputs) = Cardinality(ReferencedModules)

=============================================================================
